---- MODULE Spec2Model ----
(***************************************************************************)
(* Model of the chat-app backend: the users router (profile, friend        *)
(* requests), the messages router (send, conversation) and the Socket.IO   *)
(* relay of index.js.  Every await on the document store is one step;      *)
(* handlers of different requests interleave at those steps.               *)
(***************************************************************************)
EXTENDS Integers, Sequences, FiniteSets, TLC

\* ---------------------------------------------------------------- bounds
\* MaxRequests:  friend requests ever created
\* MaxAccepts:   accept calls that get past the request lookup
\* MaxInFlight:  accept handlers running at the same time
\* MaxMessages:  messages ever stored
\* MaxSockets:   socket connections ever opened
\* MaxPublishes: sendMessage events ever relayed
\* MaxApiWrites: store writes in a run of the whole-API specification
MaxRequests == 2
MaxAccepts == 2
MaxInFlight == 2
MaxMessages == 2
MaxSockets == 3
MaxPublishes == 2
MaxApiWrites == 2

\* ---------------------------------------------------------------- values
Users == {"u1", "u2", "u3"}
\* The Authorization header: absent, failing jwt.verify, or verifying to a user.
Tokens == Users \cup {"missing", "invalid"}
Null == "null"
Files == {"uploads/f1"}
NoFile == "nofile"
Contents == {"hi"}
Undefined == "undefined"
\* The username of every user document.
Username == [u \in Users |-> IF u = "u1" THEN "alice" ELSE IF u = "u2" THEN "bob" ELSE "carol"]
\* sendMessage payloads a client emits; the fields are the client's choice.
Payloads ==
    {[sender |-> "u1", receiver |-> "u2", content |-> "hi", media |-> Null, extra |-> "x"],
     [sender |-> "u2", receiver |-> "u1", content |-> "yo", media |-> Null, extra |-> "x"],
     [sender |-> "u3", receiver |-> "u3", content |-> Null, media |-> "uploads/f1", extra |-> "y"]}

VARIABLES
    friendRequests,   \* FriendRequest collection, _id = index
    friends,          \* User.friends of every user document (an array)
    profilePicture,   \* User.profilePicture of every user document
    accepts,          \* accept handlers in flight: slot -> [pc, id, user]
    acceptCount,      \* accept handlers started so far
    messages,         \* Message collection in natural (insertion) order
    clock,            \* the store's clock
    last,             \* the last step taken: operation, token, request id, response
    sockets,          \* sockets connected to the relay
    nextSocket,       \* socket ids handed out so far
    inbox,            \* receiveMessage events each socket was sent
    published         \* sendMessage events relayed, with the sockets connected then

vars == <<friendRequests, friends, profilePicture, accepts, acceptCount,
          messages, clock, last, sockets, nextSocket, inbox, published>>
usersDb == <<friendRequests, friends, profilePicture>>
usersVars == <<friendRequests, friends, profilePicture, accepts, acceptCount>>
messagesVars == <<messages, clock>>
relayVars == <<sockets, nextSocket, inbox, published>>

\* ---------------------------------------------------------------- helpers
Count(s, x) == Cardinality({i \in DOMAIN s : s[i] = x})
Range(s) == {s[i] : i \in DOMAIN s}
\* The step just taken: the operation, whether the Authorization header was
\* missing, invalid or valid, the request id in the path and the response.
Event(op, token, id, res) ==
    [op |-> op, token |-> IF token \in Users THEN "valid" ELSE token,
     id |-> id, res |-> res]
Idle == [pc |-> "idle", id |-> 0, user |-> "none"]

\* authenticateToken with the err test of the jwt.verify callback left out.
authenticateToken_noErrCheck(token) ==
    IF token = "missing" THEN "401" ELSE "next"

\* authenticateToken of the users router: 401 without an Authorization header,
\* 403 when jwt.verify fails, otherwise req.user is set and next() runs.
authenticateToken(token) ==
    IF token = "missing" THEN "401"
    ELSE IF token = "invalid" THEN "403"
    ELSE "next"

\* authenticateToken of the messages router (the same text, defined again).
authenticateToken_messages(token) ==
    IF token = "missing" THEN "401"
    ELSE IF token = "invalid" THEN "403"
    ELSE "next"

\* new FriendRequest({requester, recipient}); status defaults to pending.
NewFriendRequest(requester, recipient) ==
    [requester |-> requester, recipient |-> recipient, status |-> "pending"]

\* array.push(x) followed by save(): the pushed element is appended to the
\* stored array.
Push(arr, x) == Append(arr, x)

Init ==
    /\ friendRequests = <<>>
    /\ friends = [u \in Users |-> <<>>]
    /\ profilePicture = [u \in Users |-> Null]
    /\ accepts = [s \in 1..MaxInFlight |-> Idle]
    /\ acceptCount = 0
    /\ messages = <<>>
    /\ clock = 0
    /\ last = Event("start", "none", 0, "none")
    /\ sockets = {}
    /\ nextSocket = 0
    /\ inbox = [s \in 1..MaxSockets |-> <<>>]
    /\ published = <<>>

\* ------------------------------------------------------------ users router
\* GET /users/profile
GetProfile(token) ==
    /\ last' = Event("profile", token, 0,
                     IF authenticateToken(token) = "next" THEN "200"
                     ELSE authenticateToken(token))
    /\ UNCHANGED <<usersVars, messagesVars, relayVars>>

\* POST /users/profile-picture; without an uploaded file req.file is undefined
\* and req.file.path throws.
ProfilePicture(token, file) ==
    /\ IF authenticateToken(token) # "next"
       THEN /\ last' = Event("profilePicture", token, 0, authenticateToken(token))
            /\ UNCHANGED profilePicture
       ELSE IF file = NoFile
       THEN /\ last' = Event("profilePicture", token, 0, "TypeError")
            /\ UNCHANGED profilePicture
       ELSE /\ profilePicture' = [profilePicture EXCEPT ![token] = file]
            /\ last' = Event("profilePicture", token, 0, "200")
    /\ UNCHANGED <<friendRequests, friends, accepts, acceptCount, messagesVars, relayVars>>

\* POST /users/friend-request
SendFriendRequest(token, recipientId) ==
    /\ IF authenticateToken(token) # "next"
       THEN /\ last' = Event("friendRequest", token, 0, authenticateToken(token))
            /\ UNCHANGED friendRequests
       ELSE /\ Len(friendRequests) < MaxRequests
            /\ friendRequests' = Append(friendRequests, NewFriendRequest(token, recipientId))
            /\ last' = Event("friendRequest", token, 0, "201")
    /\ UNCHANGED <<friends, profilePicture, accepts, acceptCount, messagesVars, relayVars>>

\* GET /users/friend-requests
GetFriendRequests(token) ==
    /\ last' = Event("friendRequests", token, 0,
                     IF authenticateToken(token) = "next" THEN "200"
                     ELSE authenticateToken(token))
    /\ UNCHANGED <<usersVars, messagesVars, relayVars>>

FreeSlots == {s \in DOMAIN accepts : accepts[s].pc = "idle"}

\* POST /users/friend-request/:id/accept up to the answer of
\* FriendRequest.findById(req.params.id).  With no such request, request is
\* null and request.status = 'accepted' throws a TypeError inside the async
\* handler: no response is written.
AcceptFind(token, id) ==
    /\ IF authenticateToken(token) # "next"
       THEN /\ last' = Event("accept", token, id, authenticateToken(token))
            /\ UNCHANGED <<accepts, acceptCount>>
       ELSE IF id \notin DOMAIN friendRequests
       THEN /\ last' = Event("accept", token, id, "TypeError")
            /\ UNCHANGED <<accepts, acceptCount>>
       ELSE /\ acceptCount < MaxAccepts
            /\ FreeSlots # {}
            /\ LET s == CHOOSE f \in FreeSlots : \A g \in FreeSlots : f <= g
               IN accepts' = [accepts EXCEPT ![s] =
                                [pc |-> "saveRequest", id |-> id, user |-> token]]
            /\ acceptCount' = acceptCount + 1
            /\ last' = Event("accept", token, id, "pending")
    /\ UNCHANGED <<usersDb, messagesVars, relayVars>>

\* The accept handler with request.save() left out: the status stays as it was.
AcceptSaveRequest_noSave(s) ==
    /\ accepts[s].pc = "saveRequest"
    /\ accepts' = [accepts EXCEPT ![s].pc = "findUsers"]
    /\ last' = Event("acceptSaveRequest", accepts[s].user, accepts[s].id, "pending")
    /\ UNCHANGED <<usersDb, acceptCount, messagesVars, relayVars>>

\* request.status = 'accepted'; await request.save()
AcceptSaveRequest(s) ==
    /\ accepts[s].pc = "saveRequest"
    /\ friendRequests' = [friendRequests EXCEPT ![accepts[s].id].status = "accepted"]
    /\ accepts' = [accepts EXCEPT ![s].pc = "findUsers"]
    /\ last' = Event("acceptSaveRequest", accepts[s].user, accepts[s].id, "pending")
    /\ UNCHANGED <<friends, profilePicture, acceptCount, messagesVars, relayVars>>

\* await User.findById(request.requester); await User.findById(request.recipient)
AcceptFindUsers(s) ==
    /\ accepts[s].pc = "findUsers"
    /\ accepts' = [accepts EXCEPT ![s].pc = "saveRequester"]
    /\ last' = Event("acceptFindUsers", accepts[s].user, accepts[s].id, "pending")
    /\ UNCHANGED <<usersDb, acceptCount, messagesVars, relayVars>>

\* requester.friends.push(recipient._id); await requester.save()
AcceptSaveRequester(s) ==
    /\ accepts[s].pc = "saveRequester"
    /\ LET r == friendRequests[accepts[s].id]
       IN friends' = [friends EXCEPT ![r.requester] = Push(@, r.recipient)]
    /\ accepts' = [accepts EXCEPT ![s].pc = "saveRecipient"]
    /\ last' = Event("acceptSaveRequester", accepts[s].user, accepts[s].id, "pending")
    /\ UNCHANGED <<friendRequests, profilePicture, acceptCount, messagesVars, relayVars>>

\* recipient.friends.push(requester._id); await recipient.save();
\* res.send('Friend request accepted')
AcceptSaveRecipient(s) ==
    /\ accepts[s].pc = "saveRecipient"
    /\ LET r == friendRequests[accepts[s].id]
       IN friends' = [friends EXCEPT ![r.recipient] = Push(@, r.requester)]
    /\ accepts' = [accepts EXCEPT ![s] = Idle]
    /\ last' = Event("acceptDone", accepts[s].user, accepts[s].id, "200")
    /\ UNCHANGED <<friendRequests, profilePicture, acceptCount, messagesVars, relayVars>>

\* An awaited store call of the accept handler rejects, or the process stops:
\* the handler has no try/catch, the rest of it never runs, nothing is undone.
AcceptFail(s) ==
    /\ accepts[s].pc # "idle"
    /\ accepts' = [accepts EXCEPT ![s] = Idle]
    /\ last' = Event("acceptFail", accepts[s].user, accepts[s].id, "StoreError")
    /\ UNCHANGED <<usersDb, acceptCount, messagesVars, relayVars>>

\* --------------------------------------------------------- messages router
\* The Message schema's validation, run by save(): a message needs content or
\* media.
MessageValidate(doc) == doc.content # Undefined \/ doc.media # Null

\* new Message({sender: req.user.id, receiver, content,
\*              media: req.file ? req.file.path : null})
NewMessage(userId, receiver, content, file) ==
    [sender |-> userId, receiver |-> receiver, content |-> content,
     media |-> IF file # NoFile THEN file ELSE Null]

\* save({validateBeforeSave: false}): the document is stored as it is.
SaveMessage_noValidate(doc, now) ==
    Append(messages, [_id |-> Len(messages) + 1, sender |-> doc.sender,
                      receiver |-> doc.receiver, content |-> doc.content,
                      media |-> doc.media, timestamp |-> now])

\* await message.save(): the collection after the save of doc at time now.
\* The store assigns the _id and the creation timestamp.
SaveMessage(doc, now) ==
    IF MessageValidate(doc)
    THEN Append(messages, [_id |-> Len(messages) + 1, sender |-> doc.sender,
                           receiver |-> doc.receiver, content |-> doc.content,
                           media |-> doc.media, timestamp |-> now])
    ELSE messages

\* POST /messages
SendMessage(token, receiver, content, file) ==
    /\ IF authenticateToken_messages(token) # "next"
       THEN /\ last' = Event("sendMessage", token, 0, authenticateToken_messages(token))
            /\ UNCHANGED <<messages, clock>>
       ELSE LET doc == NewMessage(token, receiver, content, file)
            IN /\ Len(messages) < MaxMessages
               /\ messages' = SaveMessage(doc, clock + 1)
               /\ clock' = IF MessageValidate(doc) THEN clock + 1 ELSE clock
               /\ last' = Event("sendMessage", token, 0,
                                IF MessageValidate(doc) THEN "201" ELSE "ValidationError")
    /\ UNCHANGED <<usersVars, relayVars>>

\* The filter with its second $or clause left out.
InConversation_oneWay(m, userId, receiverId) ==
    m.sender = userId /\ m.receiver = receiverId

\* The filter testing one party only: every message the two users take part in.
InConversation_anyPeer(m, userId, receiverId) ==
    \/ m.sender = userId \/ m.receiver = userId
    \/ m.sender = receiverId \/ m.receiver = receiverId

\* The filter of Message.find in GET /messages/:receiverId.
InConversation(m, userId, receiverId) ==
    \/ m.sender = userId /\ m.receiver = receiverId
    \/ m.sender = receiverId /\ m.receiver = userId

\* .populate('sender receiver', 'username profilePicture')
Populated(u) == [_id |-> u, username |-> Username[u], profilePicture |-> profilePicture[u]]
Populate(m) == [m EXCEPT !.sender = Populated(m.sender), !.receiver = Populated(m.receiver)]

\* Message.find({$or: [...]}).populate(...): no sort is given, the matching
\* documents come back in the collection's natural order.
getConversation(userId, receiverId) ==
    LET found == SelectSeq(messages, LAMBDA m : InConversation(m, userId, receiverId))
    IN [i \in DOMAIN found |-> Populate(found[i])]

\* GET /messages/:receiverId
GetConversation(token, receiverId) ==
    /\ last' = Event("getConversation", token, 0,
                     IF authenticateToken_messages(token) = "next" THEN "200"
                     ELSE authenticateToken_messages(token))
    /\ UNCHANGED <<usersVars, messagesVars, relayVars>>

\* ------------------------------------------------------------ socket relay
\* io.on('connection'): a new socket joins the default namespace.
Connect ==
    /\ nextSocket < MaxSockets
    /\ nextSocket' = nextSocket + 1
    /\ sockets' = sockets \cup {nextSocket + 1}
    /\ UNCHANGED <<inbox, published, usersVars, messagesVars, last>>

\* socket.on('disconnect')
Disconnect(s) ==
    /\ s \in sockets
    /\ sockets' = sockets \ {s}
    /\ UNCHANGED <<nextSocket, inbox, published, usersVars, messagesVars, last>>

\* ({ sender, receiver, content, media }) => { sender, receiver, content, media }
Relayed(payload) ==
    [sender |-> payload.sender, receiver |-> payload.receiver,
     content |-> payload.content, media |-> payload.media]

\* io.emit('receiveMessage', ev): one packet to every socket of the namespace.
IoEmit(n, ev) ==
    [k \in DOMAIN inbox |->
        IF k \in sockets THEN Append(inbox[k], [n |-> n, event |-> ev]) ELSE inbox[k]]

\* The handler with socket.broadcast.emit: every socket but the sender's.
SendMessageEvent_broadcast(s, payload) ==
    /\ s \in sockets
    /\ Len(published) < MaxPublishes
    /\ inbox' = [k \in DOMAIN inbox |->
                    IF k \in sockets \ {s}
                    THEN Append(inbox[k], [n |-> Len(published) + 1, event |-> Relayed(payload)])
                    ELSE inbox[k]]
    /\ published' = Append(published, [from |-> s, payload |-> payload, listeners |-> sockets])
    /\ UNCHANGED <<sockets, nextSocket, usersVars, messagesVars, last>>

\* socket.on('sendMessage', ...)
SendMessageEvent(s, payload) ==
    /\ s \in sockets
    /\ Len(published) < MaxPublishes
    /\ inbox' = IoEmit(Len(published) + 1, Relayed(payload))
    /\ published' = Append(published, [from |-> s, payload |-> payload, listeners |-> sockets])
    /\ UNCHANGED <<sockets, nextSocket, usersVars, messagesVars, last>>

\* ---------------------------------------------------------- specifications
\* Sending and accepting friend requests.
Next ==
    \/ \E t \in Tokens, u \in Users : SendFriendRequest(t, u)
    \/ \E t \in Tokens, id \in 1..(MaxRequests + 1) : AcceptFind(t, id)
    \/ \E s \in 1..MaxInFlight : AcceptSaveRequest(s)
    \/ \E s \in 1..MaxInFlight : AcceptFindUsers(s)
    \/ \E s \in 1..MaxInFlight : AcceptSaveRequester(s)
    \/ \E s \in 1..MaxInFlight : AcceptSaveRecipient(s)
    \/ \E s \in 1..MaxInFlight : AcceptFail(s)

Spec == Init /\ [][Next]_vars

\* The messages router.
NextMessages ==
    \/ \E t \in Tokens, r \in Users, c \in Contents \cup {Undefined},
          f \in Files \cup {NoFile} : SendMessage(t, r, c, f)
    \/ \E t \in Tokens, r \in Users : GetConversation(t, r)

SpecMessages == Init /\ [][NextMessages]_vars

\* The relay.
NextRelay ==
    \/ Connect
    \/ \E s \in 1..MaxSockets : Disconnect(s)
    \/ \E s \in 1..MaxSockets, p \in Payloads : SendMessageEvent(s, p)

SpecRelay == Init /\ [][NextRelay]_vars

\* Both routers together, in runs of at most MaxApiWrites store writes.
ApiWrites ==
    Len(friendRequests) + acceptCount + Len(messages)
        + Cardinality({u \in Users : profilePicture[u] # Null})

\* The peers named in requests of the whole-API runs.
ApiPeers == {"u2"}

NextApi ==
    \/ \E t \in Tokens : GetProfile(t)
    \/ \E t \in Tokens, f \in Files \cup {NoFile} : ProfilePicture(t, f) /\ ApiWrites' <= MaxApiWrites
    \/ \E t \in Tokens, u \in ApiPeers : SendFriendRequest(t, u) /\ ApiWrites' <= MaxApiWrites
    \/ \E t \in Tokens : GetFriendRequests(t)
    \/ \E t \in Tokens, id \in 1..(MaxRequests + 1) : AcceptFind(t, id) /\ ApiWrites' <= MaxApiWrites
    \/ \E s \in 1..MaxInFlight : AcceptSaveRequest(s)
    \/ \E s \in 1..MaxInFlight : AcceptFindUsers(s)
    \/ \E s \in 1..MaxInFlight : AcceptSaveRequester(s)
    \/ \E s \in 1..MaxInFlight : AcceptSaveRecipient(s)
    \/ \E s \in 1..MaxInFlight : AcceptFail(s)
    \/ \E t \in Tokens, r \in ApiPeers, c \in Contents \cup {Undefined}, f \in Files \cup {NoFile} :
            SendMessage(t, r, c, f) /\ ApiWrites' <= MaxApiWrites
    \/ \E t \in Tokens, r \in ApiPeers : GetConversation(t, r)

SpecApi == Init /\ [][NextApi]_vars

\* ------------------------------------------------------------------ claims
Quiet == \A s \in DOMAIN accepts : accepts[s].pc = "idle"
Between(i, u, v) ==
    \/ friendRequests[i].requester = u /\ friendRequests[i].recipient = v
    \/ friendRequests[i].requester = v /\ friendRequests[i].recipient = u
Db == <<friendRequests, friends, profilePicture, messages>>

\* C1: once an accept of a friend request has completed, however often, and
\* none is running, each party is in the other's friend list exactly once.
\* Stated for a request between two different users that is the only request
\* between them, so that a second entry can only come from a second accept.
C1_AcceptIdempotent ==
    \A i \in DOMAIN friendRequests :
        LET r == friendRequests[i]
        IN (/\ last.op = "acceptDone" /\ last.id = i /\ Quiet
            /\ r.requester # r.recipient
            /\ \A j \in DOMAIN friendRequests : Between(j, r.requester, r.recipient) => j = i)
           => /\ Count(friends[r.requester], r.recipient) = 1
              /\ Count(friends[r.recipient], r.requester) = 1

\* C2: whenever no accept is in progress, the friends relation is symmetric
\* and the parties of every accepted request are in each other's friend lists.
C2_NeverAsymmetric ==
    Quiet =>
        /\ \A u, v \in Users : (v \in Range(friends[u])) <=> (u \in Range(friends[v]))
        /\ \A i \in DOMAIN friendRequests :
              friendRequests[i].status = "accepted" =>
                  /\ friendRequests[i].recipient \in Range(friends[friendRequests[i].requester])
                  /\ friendRequests[i].requester \in Range(friends[friendRequests[i].recipient])

\* C3: no step of an accept made by a user who is not the request's recipient
\* changes a request's status or a friend list.
C3_OnlyRecipientAccepts ==
    [][\A s \in DOMAIN accepts :
          (/\ accepts[s].pc # "idle"
           /\ accepts'[s] # accepts[s]
           /\ accepts[s].user # friendRequests[accepts[s].id].recipient)
          => /\ friendRequests' = friendRequests
             /\ friends' = friends]_vars

\* C8: an accept whose id matches no stored request is answered with a
\* NotFoundError.
C8_NotFoundReported ==
    (last.op = "accept" /\ last.token = "valid" /\ last.id \notin DOMAIN friendRequests)
        => last.res = "NotFoundError"

\* C9: a request of any protected operation with a missing token is answered
\* 401, one with an invalid token 403, and neither changes a FriendRequest,
\* User or Message record nor starts a handler.
C9_AuthShortCircuit ==
    [][/\ last'.token = "missing" =>
            last'.res = "401" /\ UNCHANGED <<Db, accepts, acceptCount, clock>>
       /\ last'.token = "invalid" =>
            last'.res = "403" /\ UNCHANGED <<Db, accepts, acceptCount, clock>>]_vars

\* C9 witness: an accept with an invalid token was refused while a pending
\* request was stored.
C9_Witness ==
    /\ last.op = "accept" /\ last.token = "invalid" /\ last.res = "403"
    /\ last.id \in DOMAIN friendRequests
    /\ friendRequests[last.id].status = "pending"

\* Every entry of a friend list has an accepted request between the two users.
FriendsHaveAcceptedRequest ==
    \A u, v \in Users :
        v \in Range(friends[u]) =>
            \E i \in DOMAIN friendRequests :
                friendRequests[i].status = "accepted" /\ Between(i, u, v)

\* C10: every friend-list entry has an accepted friend request between the
\* two users, and only the two save steps of an accept change a friend list.
C10_FriendsOnlyByAccept ==
    [][/\ FriendsHaveAcceptedRequest'
       /\ friends' # friends => last'.op \in {"acceptSaveRequester", "acceptDone"}]_vars

\* C10 witness: an accept has completed and two users are in each other's list.
C10_Witness ==
    /\ last.op = "acceptDone"
    /\ \E u, v \in Users : u # v /\ v \in Range(friends[u]) /\ u \in Range(friends[v])

C5_ConversationSymmetric ==
    \A a, b \in Users : getConversation(a, b) = getConversation(b, a)

\* C5 witness: two users have exchanged messages in both directions and a
\* message of another conversation is stored too.
C5_Witness ==
    \E a, b \in Users :
        /\ a # b
        /\ \E i, j \in DOMAIN messages :
              /\ messages[i].sender = a /\ messages[i].receiver = b
              /\ messages[j].sender = b /\ messages[j].receiver = a
        /\ Len(getConversation(a, b)) = 2

IsPair(s, r, a, b) == (s = a /\ r = b) \/ (s = b /\ r = a)

Copies(s, n) == Cardinality({i \in DOMAIN inbox[s] : inbox[s][i].n = n})

\* C7: of every relayed sendMessage, each socket connected when it was relayed,
\* the sender's included, has been sent exactly one receiveMessage with the
\* same sender, receiver, content and media, and every other socket none.
C7_EveryListenerOnce ==
    \A n \in DOMAIN published :
        /\ published[n].from \in published[n].listeners
        /\ \A s \in DOMAIN inbox :
              /\ Copies(s, n) = IF s \in published[n].listeners THEN 1 ELSE 0
              /\ \A i \in DOMAIN inbox[s] :
                    inbox[s][i].n = n =>
                        /\ inbox[s][i].event.sender = published[n].payload.sender
                        /\ inbox[s][i].event.receiver = published[n].payload.receiver
                        /\ inbox[s][i].event.content = published[n].payload.content
                        /\ inbox[s][i].event.media = published[n].payload.media
                        /\ DOMAIN inbox[s][i].event = {"sender", "receiver", "content", "media"}

\* C7 witness: a message addressed to neither listener was relayed to two
\* connected sockets and a socket that connected afterwards is connected now.
C7_Witness ==
    \E n \in DOMAIN published :
        /\ Cardinality(published[n].listeners) >= 2
        /\ \A s \in published[n].listeners : Copies(s, n) = 1
        /\ \E s \in sockets : s \notin published[n].listeners /\ Copies(s, n) = 0

====
